---- MODULE Spec2Model ----
(***************************************************************************)
(* A model of app.py (La Voz article monitor): name variant expansion,    *)
(* Spanish date normalisation behind a result cache, the paginated        *)
(* multi-variant scrape with URL deduplication, the 2025 date filter, the  *)
(* fiscal month assignment and the per-month summary.                      *)
(*                                                                         *)
(* Python strings are modelled as sequences of one-character strings, so   *)
(* that strip, split, the regular expression, int() and the format         *)
(* specifications are computed rather than assumed.                        *)
(***************************************************************************)
EXTENDS Integers, Sequences, FiniteSets, TLC

VARIABLES
    name_input,     \* get_search_variations: the argument
    variations,     \* get_search_variations: the returned list
    var_called,     \* whether get_search_variations has returned
    today,          \* the date datetime.now() falls on
    cache,          \* st.cache_data of parse_date_and_normalize: argument -> result
    date_str,       \* parse_date_and_normalize: the argument of the calls
    date_parts,     \* how date_str was put together (day, month, case, year), if it was
    normalized,     \* parse_date_and_normalize: what the last call returned
    call_day,       \* the date on which the last call was made
    calls,          \* number of calls made
    days,           \* number of midnights passed
    date_obj,       \* calculate_fiscal_month: the argument
    month_group,    \* calculate_fiscal_month: the returned value
    fiscal_called,  \* whether calculate_fiscal_month has returned
    pc,             \* where the search run stands: idle, post, parse, returned
    search_variations,  \* scrape_lavoz_recursive: the list of terms
    max_page,       \* scrape_lavoz_recursive: pages per term
    term_idx,       \* index of `term` in search_variations
    page_num,       \* the page about to be requested, or being parsed
    pending,        \* article containers of the current page not yet looked at
    all_articles_data,  \* the accumulated records
    unique_links,   \* the URLs seen
    requested,      \* every POST made so far: term index, page, what came back
    st_errors,      \* number of st.error messages shown
    loop_ends,          \* how the page loop of each finished term ended
    df_raw,         \* the DataFrame scrape_lavoz_recursive returned
    df_results,     \* st.session_state['df_results'], with MONTH_GROUP once shown
    selected_months,    \* the months chosen in the multiselect
    summary_df,     \* the rows of summarize_by_group(df_filtered)
    shown,          \* whether the results have been displayed
    last_event      \* the container looked at last: what became of it, and whether it
                    \* had a title link and a date element

varVars == <<name_input, variations, var_called>>
dateVars == <<today, cache, date_str, date_parts, normalized, call_day, calls, days>>
fiscalVars == <<date_obj, month_group, fiscal_called>>
scrapeVars ==
    <<pc, search_variations, max_page, term_idx, page_num, pending, all_articles_data,
      unique_links, requested, st_errors, loop_ends, last_event>>
sumVars == <<df_raw, df_results, selected_months, summary_df, shown>>
vars == <<varVars, dateVars, fiscalVars, scrapeVars, sumVars>>

(***************************************************************************)
(* Characters and strings                                                  *)
(***************************************************************************)
DigitChars == <<"0", "1", "2", "3", "4", "5", "6", "7", "8", "9">>
UpperChars == <<"A", "B", "C", "D", "E", "F", "G", "H", "I", "J", "K", "L", "M",
                "N", "O", "P", "Q", "R", "S", "T", "U", "V", "W", "X", "Y", "Z">>
LowerChars == <<"a", "b", "c", "d", "e", "f", "g", "h", "i", "j", "k", "l", "m",
                "n", "o", "p", "q", "r", "s", "t", "u", "v", "w", "x", "y", "z">>

Range(s) == {s[i] : i \in DOMAIN s}

IsDigit(c) == c \in Range(DigitChars)
IsSpace(c) == c \in {" ", "\t", "\n"}
IsWord(c) == c \in Range(DigitChars) \cup Range(UpperChars) \cup Range(LowerChars) \cup {"_"}

LowerChar(c) ==
    IF c \in Range(UpperChars)
    THEN LowerChars[CHOOSE i \in DOMAIN UpperChars : UpperChars[i] = c]
    ELSE c

lower(s) == [i \in DOMAIN s |-> LowerChar(s[i])]

\* s[a..b] as a sequence of its own (empty when a > b)
Slice(s, a, b) == IF a > b THEN <<>> ELSE SubSeq(s, a, b)

\* str.strip(): leading and trailing whitespace removed
strip(s) ==
    LET keep == {i \in DOMAIN s : ~IsSpace(s[i])}
    IN  IF keep = {} THEN <<>>
        ELSE LET a == CHOOSE i \in keep : \A j \in keep : i <= j
                 b == CHOOSE i \in keep : \A j \in keep : j <= i
             IN  SubSeq(s, a, b)

\* str.split() with no argument: the maximal runs of non-whitespace, in order
RECURSIVE split(_)
split(s) ==
    IF s = <<>> THEN <<>>
    ELSE IF IsSpace(Head(s)) THEN split(Tail(s))
    ELSE LET stops == {i \in DOMAIN s : IsSpace(s[i])}
             n == IF stops = {} THEN Len(s) + 1
                  ELSE CHOOSE i \in stops : \A j \in stops : i <= j
         IN  <<SubSeq(s, 1, n - 1)>> \o split(Slice(s, n, Len(s)))

\* " ".join(parts)
RECURSIVE join(_)
join(parts) ==
    IF parts = <<>> THEN <<>>
    ELSE IF Len(parts) = 1 THEN parts[1]
    ELSE parts[1] \o <<" ">> \o join(Tail(parts))

\* x in list
Contains(list, x) == \E i \in DOMAIN list : list[i] = x

(***************************************************************************)
(* get_search_variations                                                   *)
(***************************************************************************)
get_search_variations_first_surname(name) ==
    LET stripped == strip(name)
        parts == split(stripped)
    IN  IF Len(parts) >= 2
        THEN LET surname == parts[2]
                 initial_var == <<parts[1][1], ".", " ">> \o surname
                 v1 == IF Contains(<<stripped>>, initial_var) THEN <<stripped>>
                       ELSE <<stripped, initial_var>>
             IN  IF Contains(v1, surname) THEN v1 ELSE Append(v1, surname)
        ELSE <<stripped>>

get_search_variations(name) ==
    LET stripped == strip(name)
        v0 == <<stripped>>
        parts == split(stripped)
    IN  IF Len(parts) >= 2
        THEN LET first_name == parts[1]
                 surname == join(Tail(parts))
                 initial_var == <<first_name[1], ".", " ">> \o surname
                 v1 == IF Contains(v0, initial_var) THEN v0 ELSE Append(v0, initial_var)
             IN  IF Contains(v1, surname) THEN v1 ELSE Append(v1, surname)
        ELSE v0

(***************************************************************************)
(* Numbers and their decimal text                                          *)
(***************************************************************************)
DigitValue(c) == (CHOOSE i \in DOMAIN DigitChars : DigitChars[i] = c) - 1

\* int(text) of a string of decimal digits
RECURSIVE int(_)
int(text) ==
    IF text = <<>> THEN 0
    ELSE 10 * int(SubSeq(text, 1, Len(text) - 1)) + DigitValue(text[Len(text)])

\* str(n) / f"{n}" of a natural number: no leading zeros
RECURSIVE str(_)
str(n) ==
    IF n < 10 THEN <<DigitChars[n + 1]>>
    ELSE str(n \div 10) \o <<DigitChars[(n % 10) + 1]>>

\* f"{n:02d}": zero-padded to a width of at least two
fmt02d(n) == IF n < 10 THEN <<"0">> \o str(n) ELSE str(n)

\* date.strftime('%Y-%m-%d') of a date with a four-digit year
strftime_Ymd(d) == str(d.year) \o <<"-">> \o fmt02d(d.month) \o <<"-">> \o fmt02d(d.day)

\* date.strftime('%Y-%m')
strftime_Ym(d) == str(d.year) \o <<"-">> \o fmt02d(d.month)

(***************************************************************************)
(* The calendar                                                            *)
(***************************************************************************)
IsLeap(y) == (y % 4 = 0 /\ y % 100 # 0) \/ y % 400 = 0

DaysInMonth(y, m) ==
    IF m = 2 THEN (IF IsLeap(y) THEN 29 ELSE 28)
    ELSE IF m \in {4, 6, 9, 11} THEN 30 ELSE 31

Date(y, m, d) == [year |-> y, month |-> m, day |-> d]

IsCalendarDate(y, m, d) == m \in 1..12 /\ d >= 1 /\ d <= DaysInMonth(y, m)

\* the date after d (the clock passing midnight)
Tomorrow(d) ==
    IF d.day < DaysInMonth(d.year, d.month) THEN Date(d.year, d.month, d.day + 1)
    ELSE IF d.month < 12 THEN Date(d.year, d.month + 1, 1)
    ELSE Date(d.year + 1, 1, 1)

(***************************************************************************)
(* calculate_fiscal_month                                                  *)
(***************************************************************************)
\* pandas NaT, and the None that calculate_fiscal_month returns for it
NaT == Date(0, 0, 0)
None == <<>>

\* date + relativedelta(months=1): the same day of the next month, or that
\* month's last day when it is shorter
add_one_month(d) ==
    LET y == IF d.month = 12 THEN d.year + 1 ELSE d.year
        m == IF d.month = 12 THEN 1 ELSE d.month + 1
        last == DaysInMonth(y, m)
    IN  Date(y, m, IF d.day > last THEN last ELSE d.day)

\* The colon of the conditional stands alone on line 52, which Python does not
\* accept; the condition is modelled as it is written on line 51, day > 14.
calculate_fiscal_month(d) ==
    IF d = NaT THEN None
    ELSE LET adjusted_date == IF d.day > 14 THEN add_one_month(d) ELSE d
         IN  strftime_Ym(adjusted_date)

(***************************************************************************)
(* parse_date_and_normalize                                                *)
(***************************************************************************)
enero == <<"e", "n", "e", "r", "o">>
febrero == <<"f", "e", "b", "r", "e", "r", "o">>
marzo == <<"m", "a", "r", "z", "o">>
abril == <<"a", "b", "r", "i", "l">>
mayo == <<"m", "a", "y", "o">>
junio == <<"j", "u", "n", "i", "o">>
julio == <<"j", "u", "l", "i", "o">>
agosto == <<"a", "g", "o", "s", "t", "o">>
septiembre == <<"s", "e", "p", "t", "i", "e", "m", "b", "r", "e">>
octubre == <<"o", "c", "t", "u", "b", "r", "e">>
noviembre == <<"n", "o", "v", "i", "e", "m", "b", "r", "e">>
diciembre == <<"d", "i", "c", "i", "e", "m", "b", "r", "e">>

\* the dict spanish_months, as the list of its keys in the order of their values
spanish_months ==
    <<enero, febrero, marzo, abril, mayo, junio,
      julio, agosto, septiembre, octubre, noviembre, diciembre>>

\* spanish_months.get(name): the month number, or 0 for None
spanish_months_get(name) ==
    IF \E i \in DOMAIN spanish_months : spanish_months[i] = name
    THEN CHOOSE i \in DOMAIN spanish_months : spanish_months[i] = name
    ELSE 0

\* the first index >= i of s whose character is not in the class (Len(s)+1 if none):
\* where a greedy \d+, \s+ or \w+ that starts at i ends
DigitsEnd(s, i) ==
    CHOOSE j \in i..(Len(s) + 1) :
        /\ \A k \in i..(j - 1) : IsDigit(s[k])
        /\ j = Len(s) + 1 \/ ~IsDigit(s[j])
SpacesEnd(s, i) ==
    CHOOSE j \in i..(Len(s) + 1) :
        /\ \A k \in i..(j - 1) : IsSpace(s[k])
        /\ j = Len(s) + 1 \/ ~IsSpace(s[j])
WordEnd(s, i) ==
    CHOOSE j \in i..(Len(s) + 1) :
        /\ \A k \in i..(j - 1) : IsWord(s[k])
        /\ j = Len(s) + 1 \/ ~IsWord(s[j])

\* the literal "de" under re.IGNORECASE at index i
DeAt(s, i) == i + 1 <= Len(s) /\ LowerChar(s[i]) = "d" /\ LowerChar(s[i + 1]) = "e"

\* no match: what stands for the None of re.search
NoMatch == [found |-> FALSE, g1 |-> <<>>, g2 |-> <<>>, g3 |-> <<>>]

\* (\d+)\s+de\s+(\w+)\s+de\s+(\d{4}) anchored at index i. The classes of adjacent
\* pieces are disjoint, so the greedy run of each is the only way to match.
MatchAt(s, i) ==
    LET d1 == DigitsEnd(s, i)
        s1 == SpacesEnd(s, d1)
        s2 == SpacesEnd(s, s1 + 2)
        w == WordEnd(s, s2)
        s3 == SpacesEnd(s, w)
        s4 == SpacesEnd(s, s3 + 2)
        ok == /\ d1 > i
              /\ s1 > d1
              /\ DeAt(s, s1)
              /\ s2 > s1 + 2
              /\ w > s2
              /\ s3 > w
              /\ DeAt(s, s3)
              /\ s4 > s3 + 2
              /\ s4 + 3 <= Len(s)
              /\ \A k \in s4..(s4 + 3) : IsDigit(s[k])
    IN  IF ok
        THEN [found |-> TRUE,
              g1 |-> SubSeq(s, i, d1 - 1),
              g2 |-> SubSeq(s, s2, w - 1),
              g3 |-> SubSeq(s, s4, s4 + 3)]
        ELSE NoMatch

\* re.search: the start indices are tried from the left, the first match wins
RECURSIVE search_from(_, _)
search_from(s, i) ==
    IF i > Len(s) THEN NoMatch
    ELSE IF IsDigit(s[i]) /\ MatchAt(s, i).found THEN MatchAt(s, i)
    ELSE search_from(s, i + 1)

re_search(s) == search_from(s, 1)

\* sub in s
IsSubstring(sub, s) ==
    \E i \in 1..(Len(s) - Len(sub) + 1) : SubSeq(s, i, i + Len(sub) - 1) = sub

hoy == <<"h", "o", "y">>
ayer == <<"a", "y", "e", "r">>
hora == <<"h", "o", "r", "a">>
minuto == <<"m", "i", "n", "u", "t", "o">>
relative_keywords == {hoy, ayer, hora, minuto}

parse_date_and_normalize_no_strip(raw, now) ==
    LET match == re_search(raw)
        month_num == spanish_months_get(lower(match.g2))
    IN  IF match.found /\ month_num # 0
        THEN str(int(match.g3)) \o <<"-">> \o fmt02d(month_num) \o <<"-">> \o fmt02d(int(match.g1))
        ELSE IF \E keyword \in relative_keywords : IsSubstring(keyword, lower(raw))
        THEN strftime_Ymd(now)
        ELSE raw

parse_date_and_normalize_case_sensitive(raw, now) ==
    LET s == strip(raw)
        match == re_search(s)
        month_num == spanish_months_get(match.g2)
    IN  IF match.found /\ month_num # 0
        THEN str(int(match.g3)) \o <<"-">> \o fmt02d(month_num) \o <<"-">> \o fmt02d(int(match.g1))
        ELSE IF \E keyword \in relative_keywords : IsSubstring(keyword, lower(s))
        THEN strftime_Ymd(now)
        ELSE s

\* The function body: what one uncached call returns when datetime.now() is `now`.
parse_date_and_normalize(raw, now) ==
    LET s == strip(raw)
        match == re_search(s)
        day == int(match.g1)
        month_name == lower(match.g2)
        year == int(match.g3)
        month_num == spanish_months_get(month_name)
    IN  IF match.found /\ month_num # 0
        THEN str(year) \o <<"-">> \o fmt02d(month_num) \o <<"-">> \o fmt02d(day)
        ELSE IF \E keyword \in relative_keywords : IsSubstring(keyword, lower(s))
        THEN strftime_Ymd(now)
        ELSE s

\* @st.cache_data: the stored result of an earlier call with the same argument is
\* returned without running the body; the entries have no expiry.
cache_lookup(store, raw, now) ==
    IF \E e \in store : e[1] = raw
    THEN (CHOOSE e \in store : e[1] = raw)[2]
    ELSE parse_date_and_normalize(raw, now)

cache_store(store, raw, now) ==
    IF \E e \in store : e[1] = raw THEN store
    ELSE store \cup {<<raw, parse_date_and_normalize(raw, now)>>}

(***************************************************************************)
(* scrape_lavoz_recursive                                                  *)
(***************************************************************************)
DOMAIN_SITE == "https://www.lavozdegalicia.es"

\* An href is <<"path", p>> (a path from the site root) or <<"abs", site, p>> (a
\* full URL); a URL is <<site, p>>. urljoin(DOMAIN, href) keeps a full URL and puts
\* DOMAIN before a path.
urljoin(base, href) ==
    IF href[1] = "abs" THEN <<href[2], href[3]>> ELSE <<base, href[2]>>

NoLink == <<"none">>        \* select_one('h1 a[href]') finds nothing
EmptyHref == <<"empty">>    \* the link's href is the empty string

Date_Not_Found == <<"D", "a", "t", "e", " ", "N", "o", "t", " ", "F", "o", "u", "n", "d">>

\* date_raw of a container: the text of time.entry-date, 'Date Not Found' without
\* that element, and the datetime attribute when it has more than 5 characters
date_raw_of(date_tag) ==
    IF ~date_tag.present THEN Date_Not_Found
    ELSE IF date_tag.has_datetime /\ Len(date_tag.datetime) > 5 THEN date_tag.datetime
    ELSE date_tag.text

Record(title, normalized_date, date_raw, article_url, term) ==
    [TITLE |-> title, DATE_NORMALIZED |-> normalized_date, DATE_RAW |-> date_raw,
     URL |-> article_url, FOUND_VIA |-> term]

\* One pass of the loop over article_containers: the lists after it, and what
\* happened ("nolink", "dup", "admitted").
process_container_no_seen_check(container, term, data, links, store, now) ==
    IF container.href \in {NoLink, EmptyHref}
    THEN [data |-> data, links |-> links, store |-> store, event |-> "nolink"]
    ELSE LET article_url == urljoin(DOMAIN_SITE, container.href)
             date_raw == date_raw_of(container.date_tag)
         IN  [data |-> Append(data, Record(container.title, cache_lookup(store, date_raw, now),
                                           date_raw, article_url, term)),
              links |-> links \cup {article_url},
              store |-> cache_store(store, date_raw, now),
              event |-> "admitted"]

process_container_needs_date(container, term, data, links, store, now) ==
    IF container.href \in {NoLink, EmptyHref}
    THEN [data |-> data, links |-> links, store |-> store, event |-> "nolink"]
    ELSE LET article_url == urljoin(DOMAIN_SITE, container.href)
             date_raw == date_raw_of(container.date_tag)
         IN  IF article_url \in links
             THEN [data |-> data, links |-> links, store |-> store, event |-> "dup"]
             ELSE IF ~container.date_tag.present
             THEN [data |-> data, links |-> links, store |-> store, event |-> "nolink"]
             ELSE [data |-> Append(data, Record(container.title,
                                                cache_lookup(store, date_raw, now),
                                                date_raw, article_url, term)),
                   links |-> links \cup {article_url},
                   store |-> cache_store(store, date_raw, now),
                   event |-> "admitted"]

process_container(container, term, data, links, store, now) ==
    IF container.href \in {NoLink, EmptyHref}
    THEN [data |-> data, links |-> links, store |-> store, event |-> "nolink"]
    ELSE LET article_url == urljoin(DOMAIN_SITE, container.href)
             date_raw == date_raw_of(container.date_tag)
             normalized_date == cache_lookup(store, date_raw, now)
         IN  IF article_url \in links
             THEN [data |-> data, links |-> links, store |-> store, event |-> "dup"]
             ELSE [data |-> Append(data, Record(container.title, normalized_date,
                                                date_raw, article_url, term)),
                   links |-> links \cup {article_url},
                   store |-> cache_store(store, date_raw, now),
                   event |-> "admitted"]

Position(p, ti, pg) == [pc |-> p, term_idx |-> ti, page_num |-> pg]

\* the outer for loop moves on to the next term, or the function returns
next_term(ti, n_terms) ==
    IF ti < n_terms THEN Position("post", ti + 1, 1) ELSE Position("returned", ti, 1)

\* range(1, max_page + 1): the next page of the term, or the end of its pages
next_page_one_too_many(ti, pg, maxp, n_terms) ==
    IF pg <= maxp THEN Position("post", ti, pg + 1) ELSE next_term(ti, n_terms)

next_page(ti, pg, maxp, n_terms) ==
    IF pg < maxp THEN Position("post", ti, pg + 1) ELSE next_term(ti, n_terms)

\* `break` out of the page loop on a page without article containers
on_empty_page(ti, n_terms) == next_term(ti, n_terms)

\* except RequestException: st.error(...), then `break` out of the page loop
on_request_exception_returns(ti, n_terms) == Position("returned", ti, 1)

on_request_exception(ti, n_terms) == next_term(ti, n_terms)

(***************************************************************************)
(* The 2025 filter, MONTH_GROUP and summarize_by_group                     *)
(***************************************************************************)
\* pd.to_datetime(text, dayfirst=True, errors='coerce') of one cell, for the cells
\* of this model: a YYYY-MM-DD string that names a day of the calendar becomes that
\* date, any other string NaT.
to_datetime(text) ==
    IF /\ Len(text) = 10
       /\ text[5] = "-" /\ text[8] = "-"
       /\ \A i \in {1, 2, 3, 4, 6, 7, 9, 10} : IsDigit(text[i])
       /\ IsCalendarDate(int(SubSeq(text, 1, 4)), int(SubSeq(text, 6, 7)),
                         int(SubSeq(text, 9, 10)))
    THEN Date(int(SubSeq(text, 1, 4)), int(SubSeq(text, 6, 7)), int(SubSeq(text, 9, 10)))
    ELSE NaT

\* DATE_OBJ added, the rows without a date dropped, the years from 2025 on kept
filter_2025_keeps_every_year(raw) ==
    LET with_obj == [i \in DOMAIN raw |->
                        [DATE_NORMALIZED |-> raw[i].DATE_NORMALIZED,
                         DATE_OBJ |-> to_datetime(raw[i].DATE_NORMALIZED)]]
        HasDate(row) == row.DATE_OBJ # NaT
    IN  SelectSeq(with_obj, HasDate)

filter_2025(raw) ==
    LET with_obj == [i \in DOMAIN raw |->
                        [DATE_NORMALIZED |-> raw[i].DATE_NORMALIZED,
                         DATE_OBJ |-> to_datetime(raw[i].DATE_NORMALIZED)]]
        HasDate(row) == row.DATE_OBJ # NaT
        From2025(row) == row.DATE_OBJ.year >= 2025
    IN  SelectSeq(SelectSeq(with_obj, HasDate), From2025)

\* df_results['MONTH_GROUP'] = df_results['DATE_OBJ'].apply(calculate_fiscal_month)
with_month_group(df) ==
    [i \in DOMAIN df |->
        [DATE_NORMALIZED |-> df[i].DATE_NORMALIZED, DATE_OBJ |-> df[i].DATE_OBJ,
         MONTH_GROUP |-> calculate_fiscal_month(df[i].DATE_OBJ)]]

\* the order of Python strings of digits and "-" (by code point)
CharOrd(c) == IF c = "-" THEN 0 ELSE DigitValue(c) + 1

RECURSIVE StrLess(_, _)
StrLess(a, b) ==
    IF b = <<>> THEN FALSE
    ELSE IF a = <<>> THEN TRUE
    ELSE IF Head(a) # Head(b) THEN CharOrd(Head(a)) < CharOrd(Head(b))
    ELSE StrLess(Tail(a), Tail(b))

\* sorted(keys)
RECURSIVE sorted(_)
sorted(keys) ==
    IF keys = {} THEN <<>>
    ELSE LET least == CHOOSE k \in keys : \A other \in keys \ {k} : StrLess(k, other)
         IN  <<least>> \o sorted(keys \ {least})

\* sorted(df['MONTH_GROUP'].dropna().unique())
available_months(df) == sorted({df[i].MONTH_GROUP : i \in DOMAIN df} \ {None})

\* df[df['MONTH_GROUP'].isin(selected)]
isin_filter(df, selected) ==
    LET Selected(row) == row.MONTH_GROUP \in selected
    IN  SelectSeq(df, Selected)

CountOf(df, month) == Cardinality({i \in DOMAIN df : df[i].MONTH_GROUP = month})

\* value_counts().sort_index(): one row per month that occurs, in ascending order
summarize_by_group(df) ==
    IF df = <<>> THEN <<>>
    ELSE LET index == sorted({df[i].MONTH_GROUP : i \in DOMAIN df} \ {None})
         IN  [i \in DOMAIN index |-> [Month |-> index[i], Count |-> CountOf(df, index[i])]]

(***************************************************************************)
(* get_search_variations over bounded inputs                               *)
(***************************************************************************)
MaxNameLen == 5
NameChars == {"A", "B", " ", "."}

RECURSIVE StringsUpTo(_, _)
StringsUpTo(chars, n) ==
    IF n = 0 THEN {<<>>}
    ELSE LET shorter == StringsUpTo(chars, n - 1)
         IN  shorter \cup {Append(s, c) : s \in shorter, c \in chars}

CLAUDIA_ZAPATER == <<"C", "L", "A", "U", "D", "I", "A", " ", "Z", "A", "P", "A", "T", "E", "R">>
C_ZAPATER == <<"C", ".", " ", "Z", "A", "P", "A", "T", "E", "R">>
ZAPATER == <<"Z", "A", "P", "A", "T", "E", "R">>

NameInputs ==
    StringsUpTo(NameChars, MaxNameLen)
        \cup {CLAUDIA_ZAPATER, C_ZAPATER, ZAPATER, <<" ">> \o CLAUDIA_ZAPATER \o <<" ">>}

(***************************************************************************)
(* parse_date_and_normalize over bounded inputs                            *)
(***************************************************************************)
UpperChar(c) ==
    IF c \in Range(LowerChars)
    THEN UpperChars[CHOOSE i \in DOMAIN LowerChars : LowerChars[i] = c]
    ELSE c

\* a month name written in lower case, in upper case, or capitalised
CaseForms == {"lower", "upper", "capital"}
InCase(word, form) ==
    [i \in DOMAIN word |->
        IF form = "upper" \/ (form = "capital" /\ i = 1) THEN UpperChar(word[i]) ELSE word[i]]

DayStrings ==
    {<<"1">>, <<"9">>, <<"0">>, <<"0", "1">>, <<"1", "8">>, <<"2", "9">>, <<"3", "0">>,
     <<"3", "1">>, <<"0", "0", "7">>, <<"1", "2", "3">>}
YearStrings ==
    {<<"2", "0", "2", "5">>, <<"2", "0", "2", "4">>, <<"1", "9", "9", "9">>, <<"0", "0", "9", "9">>}

de == <<" ", "d", "e", " ">>

\* "<d> de <month> de <yyyy>"
SpanishDate(d, m, form, y) == d \o de \o InCase(spanish_months[m], form) \o de \o y

SpanishParts ==
    [kind : {"spanish"}, d : DayStrings, m : 1..12, form : CaseForms, y : YearStrings]

OtherStrings ==
    {<<"h", "o", "y">>,
     <<"a", "y", "e", "r">>,
     <<"H", "O", "Y">>,
     <<"H", "a", "c", "e", " ", "2", " ", "h", "o", "r", "a", "s">>,
     <<"h", "a", "c", "e", " ", "5", " ", "m", "i", "n", "u", "t", "o", "s">>,
     <<" ", "g", "a", "r", "b", "a", "g", "e", "-", "u", "n", "p", "a", "r", "s", "e", "a", "b", "l", "e", " ">>,
     <<"g", "a", "r", "b", "a", "g", "e", "-", "u", "n", "p", "a", "r", "s", "e", "a", "b", "l", "e">>,
     <<"2", "0", "2", "5", "-", "0", "7", "-", "1", "8">>,
     <<"D", "a", "t", "e", " ", "N", "o", "t", " ", "F", "o", "u", "n", "d">>,
     <<"1", "8", " ", "d", "e", " ", "f", "o", "o", " ", "d", "e", " ", "2", "0", "2", "5">>,
     <<" ", " ", "1", "8", " ", "d", "e", " ", "j", "u", "l", "i", "o", " ", "d", "e", " ", "2", "0", "2", "5", " ">>,
     <<"P", "u", "b", "l", "i", "c", "a", "d", "o", " ", "e", "l", " ", "1", "8", " ", "d", "e", " ", "j", "u", "l", "i", "o", " ", "d", "e", " ", "2", "0", "2", "5">>,
     <<"1", "8", " ", "d", "e", " ", "j", "u", "l", "i", "o", " ", "d", "e", " ", "2", "0", "2", "5", "5">>,
     <<"1", "8", " ", "D", "E", " ", "J", "U", "L", "I", "O", " ", "D", "E", " ", "2", "0", "2", "5">>,
     <<"1", "8", " ", " ", "d", "e", " ", "j", "u", "l", "i", "o", "	", "d", "e", " ", "2", "0", "2", "5">>,
     <<"2", "0", "2", "5", "-", "0", "7", "-", "1", "8", "T", "1", "0", ":", "0", "0", ":", "0", "0">>,
     <<"1", "8", " ", "d", "e", " ", "j", "u", "l", "i", "o", " ", "2", "0", "2", "5">>,
     <<"a", "h", "o", "r", "a", " ", "m", "i", "s", "m", "o">>,
     <<"1", "8", " ", "d", "e", " ", "h", "o", "y", " ", "d", "e", " ", "2", "0", "2", "5">>,
     <<>>,
     <<"x", "1", "8", " ", "d", "e", " ", "m", "a", "y", "o", " ", "d", "e", " ", "2", "0", "2", "5">>,
     <<"1", "8", "/", "0", "7", "/", "2", "0", "2", "5">>}

NoParts == [kind |-> "other", d |-> <<>>, m |-> 0, form |-> "lower", y |-> <<>>]

StartDays == {Date(2025, 12, 31), Date(2026, 2, 28)}

MaxCalls == 2
MaxDays == 1

DateIdle ==
    /\ today = Date(2025, 12, 31)
    /\ cache = {}
    /\ date_str = <<>>
    /\ date_parts = NoParts
    /\ normalized = <<>>
    /\ call_day = Date(2025, 12, 31)
    /\ calls = 0
    /\ days = 0

\* one call of the cached function with the argument date_str
CallParse ==
    /\ calls < MaxCalls
    /\ normalized' = cache_lookup(cache, date_str, today)
    /\ cache' = cache_store(cache, date_str, today)
    /\ call_day' = today
    /\ calls' = calls + 1
    /\ UNCHANGED <<today, date_str, date_parts, days>>

\* the clock passes midnight while the server process, and so the cache, lives on
Midnight ==
    /\ days < MaxDays
    /\ today' = Tomorrow(today)
    /\ days' = days + 1
    /\ UNCHANGED <<cache, date_str, date_parts, normalized, call_day, calls>>

(***************************************************************************)
(* calculate_fiscal_month over bounded inputs                              *)
(***************************************************************************)
YearSpan == 2
FiscalYears == 2025..(2025 + YearSpan - 1)

CalendarDates ==
    {dt \in [year : FiscalYears, month : 1..12, day : 1..31] :
        dt.day <= DaysInMonth(dt.year, dt.month)}

FiscalIdle ==
    /\ date_obj = NaT
    /\ month_group = None
    /\ fiscal_called = FALSE

CallFiscal ==
    /\ ~fiscal_called
    /\ month_group' = calculate_fiscal_month(date_obj)
    /\ fiscal_called' = TRUE
    /\ UNCHANGED date_obj

(***************************************************************************)
(* One search run over bounded inputs                                      *)
(***************************************************************************)
MaxPages == 2           \* the slider allows 1..10
MaxContainers == 2      \* article containers on one page

A_B == <<"A", ".", " ", "B">>
SearchInputs == {A_B, <<" ", "B">>}

DateTag(present, text, has_datetime, datetime) ==
    [present |-> present, text |-> text, has_datetime |-> has_datetime, datetime |-> datetime]

NoDateTag == DateTag(FALSE, <<>>, FALSE, <<>>)
SpanishTag == DateTag(TRUE, <<"1", "5", " ", "d", "e", " ", "o", "c", "t", "u", "b", "r", "e", " ", "d", "e", " ", "2", "0", "2", "5">>, FALSE, <<>>)
LongAttrTag == DateTag(TRUE, hoy, TRUE, <<"2", "0", "2", "4", "-", "1", "2", "-", "2", "0">>)
ShortAttrTag == DateTag(TRUE, hoy, TRUE, <<"2", "0", "2", "5">>)

Container(href, date_tag) == [href |-> href, title |-> "t", date_tag |-> date_tag]

\* Containers without a usable title link, and containers that link to the same
\* article by a path and by a full URL, or to an article of another site, with and
\* without a date element.
Containers ==
    {Container(NoLink, SpanishTag),
     Container(EmptyHref, NoDateTag),
     Container(<<"path", "/a">>, SpanishTag),
     Container(<<"path", "/a">>, NoDateTag),
     Container(<<"abs", DOMAIN_SITE, "/a">>, LongAttrTag),
     Container(<<"abs", "https://other.example", "/a">>, ShortAttrTag),
     Container(<<"abs", "https://other.example", "/a">>, NoDateTag)}

ScrapeIdle ==
    /\ pc = "idle"
    /\ search_variations = <<>>
    /\ max_page = 1
    /\ term_idx = 1
    /\ page_num = 1
    /\ pending = 0
    /\ all_articles_data = <<>>
    /\ unique_links = {}
    /\ requested = <<>>
    /\ st_errors = 0
    /\ loop_ends = <<>>
    /\ last_event = [event |-> "none", has_link |-> FALSE, has_date |-> FALSE, url |-> <<>>]

Request(result) == [term_idx |-> term_idx, page_num |-> page_num, result |-> result]

GoTo(position) ==
    /\ pc' = position.pc
    /\ term_idx' = position.term_idx
    /\ page_num' = position.page_num

\* the button: the variations of the term, then scrape_lavoz_recursive is entered
Search ==
    /\ pc = "idle"
    /\ \E search_input \in SearchInputs, max_pages \in 1..MaxPages :
        /\ search_variations' = get_search_variations(search_input)
        /\ max_page' = max_pages
    /\ GoTo(Position("post", 1, 1))
    /\ all_articles_data' = <<>>
    /\ unique_links' = {}
    /\ UNCHANGED <<pending, requested, st_errors, loop_ends, last_event, cache>>

\* requests.post or raise_for_status raises a RequestException
PostFails ==
    /\ pc = "post"
    /\ requested' = Append(requested, Request("error"))
    /\ st_errors' = st_errors + 1
    /\ loop_ends' = Append(loop_ends, "error")
    /\ GoTo(on_request_exception(term_idx, Len(search_variations)))
    /\ UNCHANGED <<search_variations, max_page, pending, all_articles_data, unique_links,
                   last_event, cache>>

\* the page holds no article container
PostEmpty ==
    /\ pc = "post"
    /\ requested' = Append(requested, Request("empty"))
    /\ loop_ends' = Append(loop_ends, "empty")
    /\ GoTo(on_empty_page(term_idx, Len(search_variations)))
    /\ UNCHANGED <<search_variations, max_page, pending, all_articles_data, unique_links,
                   st_errors, last_event, cache>>

\* the page holds n article containers
PostArticles ==
    /\ pc = "post"
    /\ \E n \in 1..MaxContainers : pending' = n
    /\ requested' = Append(requested, Request("articles"))
    /\ pc' = "parse"
    /\ UNCHANGED <<search_variations, max_page, term_idx, page_num, all_articles_data,
                   unique_links, st_errors, loop_ends, last_event, cache>>

\* one article container of the page; after the last one, time.sleep and the
\* next round of the page loop
ParseContainer ==
    /\ pc = "parse"
    /\ \E container \in Containers :
        LET after == process_container(container, search_variations[term_idx],
                                       all_articles_data, unique_links, cache, today)
        IN  /\ all_articles_data' = after.data
            /\ unique_links' = after.links
            /\ cache' = after.store
            /\ last_event' = [event |-> after.event,
                               has_link |-> container.href \notin {NoLink, EmptyHref},
                               has_date |-> container.date_tag.present,
                               url |-> IF container.href \in {NoLink, EmptyHref} THEN <<>>
                                       ELSE urljoin(DOMAIN_SITE, container.href)]
    /\ pending' = pending - 1
    /\ IF pending = 1
       THEN LET position == next_page(term_idx, page_num, max_page, Len(search_variations))
            IN  /\ GoTo(position)
                /\ loop_ends' = IF position.term_idx # term_idx \/ position.pc = "returned"
                            THEN Append(loop_ends, "exhausted") ELSE loop_ends
       ELSE UNCHANGED <<pc, term_idx, page_num, loop_ends>>
    /\ UNCHANGED <<search_variations, max_page, requested, st_errors>>

(***************************************************************************)
(* The results of one search, filtered and summarised, over bounded inputs *)
(***************************************************************************)
MaxRecords == 3

\* DATE_NORMALIZED of the records: dates on both sides of the 14th, a December
\* date, a date of 2024, a date that is no day of the calendar, no date
NormalizedDates ==
    {<<"2", "0", "2", "5", "-", "1", "0", "-", "1", "4">>,
     <<"2", "0", "2", "5", "-", "1", "0", "-", "1", "5">>,
     <<"2", "0", "2", "5", "-", "1", "2", "-", "2", "0">>,
     <<"2", "0", "2", "4", "-", "1", "2", "-", "2", "0">>,
     <<"2", "0", "2", "5", "-", "0", "2", "-", "3", "1">>,
     Date_Not_Found}

RECURSIVE ListsUpTo(_, _)
ListsUpTo(items, n) ==
    IF n = 0 THEN {<<>>}
    ELSE LET shorter == ListsUpTo(items, n - 1)
         IN  shorter \cup {Append(l, x) : l \in shorter, x \in items}

SumIdle ==
    /\ df_raw = <<>>
    /\ df_results = <<>>
    /\ selected_months = {}
    /\ summary_df = <<>>
    /\ shown = FALSE

\* what the script does with df_raw after the search, up to the summary; the
\* multiselect starts with every available month selected
ShowResults ==
    /\ ~shown
    /\ LET results == with_month_group(filter_2025(df_raw))
           selected == Range(available_months(results))
       IN  /\ df_results' = results
           /\ selected_months' = selected
           /\ summary_df' = summarize_by_group(isin_filter(results, selected))
    /\ shown' = TRUE
    /\ UNCHANGED df_raw

\* the script runs again after the user has changed the selection of months
Reselect ==
    /\ shown
    /\ \E selected \in SUBSET Range(available_months(df_results)) :
        /\ selected # selected_months
        /\ selected_months' = selected
        /\ summary_df' = summarize_by_group(isin_filter(with_month_group(df_results), selected))
    /\ UNCHANGED <<df_raw, df_results, shown>>

VarIdle ==
    /\ name_input = <<>>
    /\ variations = <<>>
    /\ var_called = FALSE

VarInit ==
    /\ SumIdle
    /\ DateIdle
    /\ FiscalIdle
    /\ ScrapeIdle
    /\ name_input \in NameInputs
    /\ variations = <<>>
    /\ var_called = FALSE

CallVariations ==
    /\ ~var_called
    /\ variations' = get_search_variations(name_input)
    /\ var_called' = TRUE
    /\ UNCHANGED <<name_input, dateVars, fiscalVars, scrapeVars, sumVars>>

SpecVariations == VarInit /\ [][CallVariations]_vars


DateInit ==
    /\ SumIdle
    /\ VarIdle
    /\ FiscalIdle
    /\ ScrapeIdle
    /\ today \in StartDays
    /\ cache = {}
    /\ \/ /\ date_parts \in SpanishParts
          /\ date_str = SpanishDate(date_parts.d, date_parts.m, date_parts.form, date_parts.y)
       \/ /\ date_parts = NoParts
          /\ date_str \in OtherStrings
    /\ normalized = <<>>
    /\ call_day = today
    /\ calls = 0
    /\ days = 0

DateNext ==
    \/ CallParse /\ UNCHANGED <<varVars, fiscalVars, scrapeVars, sumVars>>
    \/ Midnight /\ UNCHANGED <<varVars, fiscalVars, scrapeVars, sumVars>>

SpecDate == DateInit /\ [][DateNext]_vars


FiscalInit ==
    /\ SumIdle
    /\ VarIdle
    /\ DateIdle
    /\ ScrapeIdle
    /\ date_obj \in CalendarDates \cup {NaT}
    /\ month_group = None
    /\ fiscal_called = FALSE

FiscalNext == CallFiscal /\ UNCHANGED <<varVars, dateVars, scrapeVars, sumVars>>

SpecFiscal == FiscalInit /\ [][FiscalNext]_vars

otherDateVars == <<today, date_str, date_parts, normalized, call_day, calls, days>>

Init ==
    /\ SumIdle
    /\ VarIdle
    /\ FiscalIdle
    /\ ScrapeIdle
    /\ today = Date(2025, 12, 31)
    /\ cache = {}
    /\ date_str = <<>>
    /\ date_parts = NoParts
    /\ normalized = <<>>
    /\ call_day = today
    /\ calls = 0
    /\ days = 0

Next ==
    \/ Search /\ UNCHANGED <<varVars, fiscalVars, otherDateVars, sumVars>>
    \/ PostFails /\ UNCHANGED <<varVars, fiscalVars, otherDateVars, sumVars>>
    \/ PostEmpty /\ UNCHANGED <<varVars, fiscalVars, otherDateVars, sumVars>>
    \/ PostArticles /\ UNCHANGED <<varVars, fiscalVars, otherDateVars, sumVars>>
    \/ ParseContainer /\ UNCHANGED <<varVars, fiscalVars, otherDateVars, sumVars>>

Spec == Init /\ [][Next]_vars

\* The run is one sequential call: nothing but its own steps can hold it up.
FairSpec == Init /\ [][Next]_vars /\ WF_vars(Next)

SumInit ==
    /\ VarIdle
    /\ DateIdle
    /\ FiscalIdle
    /\ ScrapeIdle
    /\ df_raw \in ListsUpTo([DATE_NORMALIZED : NormalizedDates], MaxRecords)
    /\ df_results = <<>>
    /\ selected_months = {}
    /\ summary_df = <<>>
    /\ shown = FALSE

SumNext ==
    \/ ShowResults /\ UNCHANGED <<varVars, dateVars, fiscalVars, scrapeVars>>
    \/ Reselect /\ UNCHANGED <<varVars, dateVars, fiscalVars, scrapeVars>>

SpecSummary == SumInit /\ [][SumNext]_vars

(***************************************************************************)
(* Properties of get_search_variations                                     *)
(***************************************************************************)
NoRepeat(list) == \A i, j \in DOMAIN list : i # j => list[i] # list[j]

\* the list with every string that occurred earlier in it left out
RECURSIVE KeepFirst(_)
KeepFirst(list) ==
    IF list = <<>> THEN <<>>
    ELSE LET front == KeepFirst(SubSeq(list, 1, Len(list) - 1))
             last == list[Len(list)]
         IN  IF Contains(front, last) THEN front ELSE Append(front, last)

\* the variants of a name whose first element is to be `first`
ExpectedVariations(first, name) ==
    LET tokens == split(name)
    IN  IF Len(tokens) >= 2
        THEN LET rest == join(Tail(tokens))
             IN  KeepFirst(<<first, <<tokens[1][1], ".", " ">> \o rest, rest>>)
        ELSE <<first>>

\* C10 as stated: the list has no repeated string, starts with the original term,
\* continues with "<initial>. <remaining tokens>" and the remaining tokens, each only
\* if not yet present, and is the original term alone for fewer than two tokens.
C10_AsStated ==
    var_called =>
        /\ NoRepeat(variations)
        /\ variations = ExpectedVariations(name_input, name_input)

\* C10, amended: the same with the first element being the original term with its
\* leading and trailing whitespace removed.
C10_Variations ==
    var_called =>
        /\ NoRepeat(variations)
        /\ variations = ExpectedVariations(strip(name_input), name_input)

C10_Witness ==
    \/ /\ var_called
       /\ name_input = <<" ">> \o CLAUDIA_ZAPATER \o <<" ">>
       /\ variations = <<CLAUDIA_ZAPATER, C_ZAPATER, ZAPATER>>
    \/ /\ var_called
       /\ name_input = <<"A", " ", "B", " ", "A">>
       /\ variations = <<name_input, <<"A", ".", " ", "B", " ", "A">>, <<"B", " ", "A">>>>

(***************************************************************************)
(* Properties of parse_date_and_normalize                                  *)
(***************************************************************************)
\* a digit string without its leading zeros (one digit is always kept)
RECURSIVE NoLeadingZeros(_)
NoLeadingZeros(text) ==
    IF Len(text) > 1 /\ Head(text) = "0" THEN NoLeadingZeros(Tail(text)) ELSE text

YearField(y) == NoLeadingZeros(y)
MonthField(m) == <<DigitChars[(m \div 10) + 1], DigitChars[(m % 10) + 1]>>
DayField(d) ==
    LET n == NoLeadingZeros(d)
    IN  IF Len(n) < 2 THEN <<"0">> \o n ELSE n

\* C3 as stated: "<d> de <month> de <yyyy>" gives exactly yyyy-mm-dd, with yyyy the
\* four digits of the input and the month and the day zero-padded to two digits.
C3_AsStated ==
    (calls > 0 /\ date_parts.kind = "spanish") =>
        normalized = date_parts.y \o <<"-">> \o MonthField(date_parts.m)
                        \o <<"-">> \o DayField(date_parts.d)

\* C3, amended: the year is printed as a number, without the leading zeros of yyyy;
\* the month is two digits and the day number is zero-padded to at least two.
C3_SpanishDate ==
    (calls > 0 /\ date_parts.kind = "spanish") =>
        normalized = YearField(date_parts.y) \o <<"-">> \o MonthField(date_parts.m)
                        \o <<"-">> \o DayField(date_parts.d)

C3_Witness ==
    /\ calls > 0
    /\ date_parts.kind = "spanish"
    /\ date_parts.form = "upper"
    /\ date_str = <<"1", "8", " ", "d", "e", " ", "J", "U", "L", "I", "O", " ", "d", "e", " ", "2", "0", "2", "5">>
    /\ normalized = <<"2", "0", "2", "5", "-", "0", "7", "-", "1", "8">>

AllDigits(text) == \A i \in DOMAIN text : IsDigit(text[i])

\* YYYY-MM-DD naming a day of the calendar
IsISODate(text) ==
    /\ Len(text) = 10
    /\ text[5] = "-" /\ text[8] = "-"
    /\ AllDigits(SubSeq(text, 1, 4)) /\ AllDigits(SubSeq(text, 6, 7))
    /\ AllDigits(SubSeq(text, 9, 10))
    /\ IsCalendarDate(int(SubSeq(text, 1, 4)), int(SubSeq(text, 6, 7)), int(SubSeq(text, 9, 10)))

\* <year>-<mm>-<dd...>: a year number, a month 01..12 and a day number of two
\* digits or more, which need not name a day of the calendar
IsDateShaped(text) ==
    \E a \in DOMAIN text :
        /\ a >= 2 /\ a + 5 <= Len(text)
        /\ text[a] = "-" /\ text[a + 3] = "-"
        /\ AllDigits(SubSeq(text, 1, a - 1))
        /\ AllDigits(SubSeq(text, a + 1, a + 2))
        /\ AllDigits(SubSeq(text, a + 4, Len(text)))
        /\ int(SubSeq(text, a + 1, a + 2)) \in 1..12

HasSpanishMatch(text) == re_search(strip(text)).found
HasRelativeToken(text) == \E keyword \in relative_keywords : IsSubstring(keyword, lower(text))

\* C4 as stated: the result is a valid ISO calendar date or the trimmed input, and
\* an input with no Spanish-date match and no relative token is returned trimmed.
C4_AsStated ==
    calls > 0 =>
        /\ IsISODate(normalized) \/ normalized = strip(date_str)
        /\ (~HasSpanishMatch(date_str) /\ ~HasRelativeToken(date_str))
                => normalized = strip(date_str)

\* C4, amended: the result is <year>-<mm>-<dd> in shape (not checked against the
\* calendar) or the trimmed input, and an input with no Spanish-date match and no
\* relative token is returned trimmed.
C4_NormalizedForm ==
    calls > 0 =>
        /\ IsDateShaped(normalized) \/ normalized = strip(date_str)
        /\ (~HasSpanishMatch(date_str) /\ ~HasRelativeToken(date_str))
                => normalized = strip(date_str)

C4_Witness ==
    \/ /\ calls > 0
       /\ date_str = <<"3", "1", " ", "d", "e", " ", "f", "e", "b", "r", "e", "r", "o", " ", "d", "e", " ", "2", "0", "2", "5">>
       /\ normalized = <<"2", "0", "2", "5", "-", "0", "2", "-", "3", "1">>
    \/ /\ calls > 0
       /\ date_str = <<" ", "g", "a", "r", "b", "a", "g", "e", "-", "u", "n", "p", "a", "r", "s", "e", "a", "b", "l", "e", " ">>
       /\ normalized = <<"g", "a", "r", "b", "a", "g", "e", "-", "u", "n", "p", "a", "r", "s", "e", "a", "b", "l", "e">>

\* C6: a call on a string with no Spanish-date match and a relative token returns
\* the date of the day on which that call is made.
C6_RelativeIsToday ==
    (calls > 0 /\ ~HasSpanishMatch(date_str) /\ HasRelativeToken(date_str)) =>
        normalized = strftime_Ymd(call_day)

(***************************************************************************)
(* Properties of calculate_fiscal_month                                    *)
(***************************************************************************)
\* C1: with the cutoff day 15, a date up to the 15th is in the bucket of its own
\* month and a later date in the bucket of the following month, December rolling
\* over to January of the next year.
C1_Cutoff15 ==
    (fiscal_called /\ date_obj # NaT) =>
        month_group =
            IF date_obj.day <= 15
            THEN str(date_obj.year) \o <<"-">> \o MonthField(date_obj.month)
            ELSE IF date_obj.month = 12
            THEN str(date_obj.year + 1) \o <<"-">> \o MonthField(1)
            ELSE str(date_obj.year) \o <<"-">> \o MonthField(date_obj.month + 1)


(***************************************************************************)
(* Properties of the summary                                               *)
(***************************************************************************)
RECURSIVE SumCounts(_)
SumCounts(rows) == IF rows = <<>> THEN 0 ELSE rows[1].Count + SumCounts(Tail(rows))

\* four digits, a dash, two digits, a dash, two digits
MatchesPattern(text) ==
    /\ Len(text) = 10
    /\ text[5] = "-" /\ text[8] = "-"
    /\ \A i \in {1, 2, 3, 4, 6, 7, 9, 10} : IsDigit(text[i])

Ascending(rows) ==
    \A i, j \in DOMAIN rows : i < j => StrLess(rows[i].Month, rows[j].Month)

\* the records of df_raw that pass the filters of the script: a date of the
\* calendar, of 2025 or later, in a selected month
Counted ==
    {i \in DOMAIN df_raw :
        LET date == to_datetime(df_raw[i].DATE_NORMALIZED)
        IN  /\ IsISODate(df_raw[i].DATE_NORMALIZED)
            /\ date.year >= 2025
            /\ calculate_fiscal_month(date) \in selected_months}

BucketOf(i) == calculate_fiscal_month(to_datetime(df_raw[i].DATE_NORMALIZED))

\* C5 as stated: rows ascending, counts >= 1, and with every month selected the
\* counts sum to the number of records whose date matches YYYY-MM-DD.
C5_AsStated ==
    (shown /\ selected_months = Range(available_months(df_results))) =>
        /\ Ascending(summary_df)
        /\ \A r \in DOMAIN summary_df : summary_df[r].Count >= 1
        /\ SumCounts(summary_df) =
              Cardinality({i \in DOMAIN df_raw : MatchesPattern(df_raw[i].DATE_NORMALIZED)})

\* C5, amended: one row per month that holds a record passing the filters (a date
\* of the calendar, year 2025 or later, month selected), rows strictly ascending,
\* each count the number of such records of the month, so at least 1, and the counts
\* sum to the number of such records; no other record is counted.
C5_Summary ==
    shown =>
        /\ Ascending(summary_df)
        /\ {summary_df[r].Month : r \in DOMAIN summary_df} = {BucketOf(i) : i \in Counted}
        /\ \A r \in DOMAIN summary_df :
              /\ summary_df[r].Count >= 1
              /\ summary_df[r].Count =
                    Cardinality({i \in Counted : BucketOf(i) = summary_df[r].Month})
        /\ SumCounts(summary_df) = Cardinality(Counted)

C5_Witness ==
    /\ shown
    /\ df_raw = <<[DATE_NORMALIZED |-> <<"2", "0", "2", "5", "-", "1", "0", "-", "1", "5">>],
                  [DATE_NORMALIZED |-> <<"2", "0", "2", "4", "-", "1", "2", "-", "2", "0">>],
                  [DATE_NORMALIZED |-> <<"2", "0", "2", "5", "-", "1", "0", "-", "1", "4">>]>>
    /\ summary_df = <<[Month |-> <<"2", "0", "2", "5", "-", "1", "0">>, Count |-> 1],
                      [Month |-> <<"2", "0", "2", "5", "-", "1", "1">>, Count |-> 1]>>


(***************************************************************************)
(* Properties of scrape_lavoz_recursive                                    *)
(***************************************************************************)
Urls == [i \in DOMAIN all_articles_data |-> all_articles_data[i].URL]

\* C2: in every state of a run no two records have the same URL, and the seen-set
\* holds exactly the URLs of the records.
C2_UniqueUrls ==
    /\ NoRepeat(Urls)
    /\ unique_links = Range(Urls)

\* a container whose URL an earlier term had already brought in is passed over
C2_Witness ==
    /\ last_event.event = "dup"
    /\ term_idx = 2
    /\ Len(requested) >= 2
    /\ \E i \in DOMAIN all_articles_data :
          /\ all_articles_data[i].URL = last_event.url
          /\ all_articles_data[i].FOUND_VIA = search_variations[1]

\* the requests follow the two loops: pages 1, 2, ... of a term, the next term
\* after an empty page, a failure or page max_page
RequestsInOrder ==
    /\ requested # <<>> => (requested[1].term_idx = 1 /\ requested[1].page_num = 1)
    /\ \A i \in DOMAIN requested :
          /\ requested[i].page_num \in 1..max_page
          /\ requested[i].term_idx \in DOMAIN search_variations
          /\ i < Len(requested) =>
                IF requested[i].result = "articles" /\ requested[i].page_num < max_page
                THEN /\ requested[i + 1].term_idx = requested[i].term_idx
                     /\ requested[i + 1].page_num = requested[i].page_num + 1
                ELSE /\ requested[i + 1].term_idx = requested[i].term_idx + 1
                     /\ requested[i + 1].page_num = 1

\* when the run has returned, every term has been requested, and the last request
\* of a term that still had pages left came back empty or failed
EveryTermRequested ==
    pc = "returned" =>
        /\ \A t \in DOMAIN search_variations :
              \E i \in DOMAIN requested :
                  requested[i].term_idx = t /\ requested[i].page_num = 1
        /\ requested[Len(requested)].term_idx = Len(search_variations)

\* a failed request takes no record away
FailureKeepsRecords ==
    st_errors' > st_errors =>
        /\ all_articles_data' = all_articles_data
        /\ unique_links' = unique_links
        /\ pc' \in {"post", "returned"}

\* C7: pages of a term are requested in increasing order from 1; the term is left at
\* the first empty page, the first failed page or after max_page pages; a failure
\* keeps the records and every later term is still requested from page 1.
C7_PageLoop == [](RequestsInOrder /\ EveryTermRequested) /\ [][FailureKeepsRecords]_vars

\* the first term fails on a later page, its records are kept and the second term
\* is still requested
C7_Witness ==
    /\ pc = "returned"
    /\ Len(search_variations) = 2
    /\ requested[1].result = "articles"
    /\ \E i \in DOMAIN requested : requested[i].term_idx = 1 /\ requested[i].result = "error"
    /\ \E i \in DOMAIN requested : requested[i].term_idx = 2 /\ requested[i].result = "empty"
    /\ all_articles_data # <<>>

\* how the run went: a failed request, else an empty page, else every page read
RunOutcome ==
    IF "error" \in Range(loop_ends) THEN "aborted"
    ELSE IF "empty" \in Range(loop_ends) THEN "early_stopped"
    ELSE "exhausted"

\* what the run leaves for its caller to tell the outcome by: the records, and an
\* error message for a failed request
ReportedStatus == IF st_errors > 0 THEN "aborted" ELSE "exhausted"

FetchBound == Len(requested) <= Len(search_variations) * max_page

\* C8 as stated: at most len(variants) * max_page fetches, and a status that tells
\* exhausted, early-stopped and aborted apart.
C8_AsStated ==
    pc = "returned" => (FetchBound /\ ReportedStatus = RunOutcome)

\* C8, amended: the run returns after at most len(variants) * max_page fetches, with
\* a possibly empty list; an error message is shown for each term whose request
\* failed, and nothing tells a run stopped by an empty page from one that read
\* every page.
C8_Terminates ==
    /\ [](FetchBound)
    /\ [](pc = "returned" =>
            /\ Len(loop_ends) = Len(search_variations)
            /\ st_errors = Cardinality({t \in DOMAIN loop_ends : loop_ends[t] = "error"}))
    /\ <>(pc = "returned")

C8_Witness ==
    /\ pc = "returned"
    /\ Len(requested) = Len(search_variations) * max_page
    /\ Len(requested) >= 4
    /\ RunOutcome = "exhausted"

Last(list) == list[Len(list)]

\* C9 as stated: a record is admitted only if its URL is new and the container has
\* a title link and a date element; without either the lists stay as they are.
C9_AsStated ==
    [][pc = "parse" =>
        /\ (~last_event'.has_link \/ ~last_event'.has_date) =>
              UNCHANGED <<all_articles_data, unique_links>>
        /\ all_articles_data' # all_articles_data =>
              /\ last_event'.has_link
              /\ last_event'.has_date
              /\ last_event'.url \notin unique_links]_vars

\* C9, amended: a record is admitted only if the container has a title link and its
\* URL is new; without a title link, or with a URL already seen, the lists stay as
\* they are; a container with a new URL and no date element is admitted with
\* 'Date Not Found' as its raw and normalized date.
C9_Admission ==
    [][pc = "parse" =>
        /\ (~last_event'.has_link \/ last_event'.url \in unique_links) =>
              UNCHANGED <<all_articles_data, unique_links>>
        /\ (last_event'.has_link /\ last_event'.url \notin unique_links) =>
              /\ Len(all_articles_data') = Len(all_articles_data) + 1
              /\ SubSeq(all_articles_data', 1, Len(all_articles_data)) = all_articles_data
              /\ Last(all_articles_data').URL = last_event'.url
              /\ unique_links' = unique_links \cup {last_event'.url}
              /\ ~last_event'.has_date =>
                    /\ Last(all_articles_data').DATE_RAW = Date_Not_Found
                    /\ Last(all_articles_data').DATE_NORMALIZED = Date_Not_Found]_vars

C9_Witness ==
    /\ last_event.event = "admitted"
    /\ last_event.has_link
    /\ ~last_event.has_date
    /\ Last(all_articles_data).URL = last_event.url
    /\ Last(all_articles_data).DATE_RAW = Date_Not_Found

====
